---- MODULE Spec2Model ----
(***************************************************************************)
(* CHSRMT heat-stress engine (src/app.py): one Streamlit script run is one *)
(* evaluation.  The session state `ss` of the script is the state of the   *)
(* model; every user event (a widget change or a button) triggers one run  *)
(* of the whole script, blocks 1 to 8 in source order.                     *)
(*                                                                         *)
(* Reals are fixed-point integers with four decimals (SCALE units per 1.0),*)
(* one digit finer than the three decimals of the environment signature.   *)
(* Float noise below 1e-4 is below the resolution of the model.            *)
(***************************************************************************)
EXTENDS Integers, Sequences, FiniteSets, TLC

SCALE == 10^4
HALF == SCALE \div 2

\* i.ffff as a fixed-point number, f in 1e-4 units
Dec(i, f) == i * SCALE + f

\* Python None / Some(v) for optional session keys
None == <<>>
Some(v) == <<v>>
Val(o) == o[1]

Abs(x) == IF x < 0 THEN -x ELSE x
Min(a, b) == IF a <= b THEN a ELSE b
Max(a, b) == IF a >= b THEN a ELSE b
Sgn(x) == IF x < 0 THEN -1 ELSE 1

(***************************************************************************)
(* Fixed-point arithmetic (float * and / rounded to the nearest grid point)*)
(***************************************************************************)
MulNN(a, b) ==
    LET qa == a \div SCALE
        ra == a % SCALE
        qb == b \div SCALE
        rb == b % SCALE
    IN  qa * qb * SCALE + qa * rb + ra * qb + (ra * rb + HALF) \div SCALE

Mul(a, b) == Sgn(a) * Sgn(b) * MulNN(Abs(a), Abs(b))

\* n / d for integers n, d (d > 0), rounded to nearest
DivRound(n, d) == Sgn(n) * ((2 * Abs(n) + d) \div (2 * d))

RECURSIVE FracDigits(_, _, _)
FracDigits(r, b, n) ==
    IF n = 0 THEN (IF 2 * r >= b THEN 1 ELSE 0)
    ELSE LET d == (r * 10) \div b
         IN  d * 10^(n - 1) + FracDigits((r * 10) % b, b, n - 1)

\* a / b in fixed point (b # 0), rounded to nearest
DivNN(a, b) == (a \div b) * SCALE + FracDigits(a % b, b, 4)
Div(a, b) == Sgn(a) * Sgn(b) * DivNN(Abs(a), Abs(b))

RECURSIVE ISqrtIter(_, _, _)
ISqrtIter(n, lo, hi) ==
    IF lo >= hi THEN lo
    ELSE LET mid == (lo + hi + 1) \div 2
         IN  IF mid * mid <= n THEN ISqrtIter(n, mid, hi)
             ELSE ISqrtIter(n, lo, mid - 1)

\* math.sqrt(x), x >= 0: integer root of x, then one Newton step in fixed point
Sqrt(x) ==
    IF x <= 0 THEN 0
    ELSE LET y0 == ISqrtIter(x, 0, 46340) * 100
         IN  (y0 + Div(x, y0)) \div 2

PI_HALF == 15708

\* polynomial for atan on [0, 1] (Abramowitz & Stegun 4.4.49)
AtanUnit(x) ==
    LET x2 == Mul(x, x)
    IN  Mul(x, 9999 + Mul(x2, -3303 + Mul(x2, 1801 + Mul(x2, -851 + Mul(x2, 208)))))

\* math.atan(x)
Atan(x) ==
    LET a == Abs(x)
    IN  Sgn(x) * (IF a <= SCALE THEN AtanUnit(a)
                  ELSE PI_HALF - AtanUnit(Div(SCALE, a)))

LN2 == 6931

\* ln(y) for y in [1, 2] by the atanh series
LnUnit(y) ==
    LET z == Div(y - SCALE, y + SCALE)
        z2 == Mul(z, z)
    IN  2 * Mul(z, SCALE + Mul(z2, 3333 + Mul(z2, 2000 + Mul(z2, 1429))))

RECURSIVE Ln(_)
Ln(y) == IF y > 2 * SCALE THEN LN2 + Ln(y \div 2) ELSE LnUnit(y)

\* math.log1p(x), x >= 0
Log1p(x) == Ln(SCALE + x)

\* Python round(x, 3) and round(x, 2): nearest, ties to even
RoundTo(x, g) ==
    LET q == x \div g
        r == x % g
    IN  IF 2 * r > g \/ (2 * r = g /\ q % 2 = 1) THEN (q + 1) * g ELSE q * g
Round3(x) == RoundTo(x, 10)
Round2(x) == RoundTo(x, 100)

Clamp(x, lo, hi) == Max(lo, Min(hi, x))

(***************************************************************************)
(* BLOCK 1 -- unit conversion helpers.  Display values of the pressure     *)
(* widget carry two more digits (1e-6 inHg), since 0.2953 compresses.      *)
(***************************************************************************)
c_to_f(c) == DivRound(c * 9, 5) + Dec(32, 0)
f_to_c(f) == DivRound((f - Dec(32, 0)) * 5, 9)
ms_to_mph(v) == Mul(v, 22369)
mph_to_ms(v) == Div(v, 22369)
kpa_to_inhg(k) == (k \div 100) * 2953 + DivRound((k % 100) * 2953, 100)
inhg_to_kpa(i) == (i \div 2953) * 100 + DivRound((i % 2953) * 100, 2953)

(***************************************************************************)
(* Session defaults (ss_default) and model parameters                      *)
(***************************************************************************)
MWL_MIN == Dec(60, 0)
MWL_PPE_W == 18
MWL_VEH_W == 12
MWL_RAD_W == 10
MWL_ADH_W == 8

DB_DEFAULT == Dec(32, 0)
RH_DEFAULT == Dec(60, 0)
WS_DEFAULT == Dec(1, 0)
P_DEFAULT == Dec(101, 3000)
GT_DEFAULT == Dec(35, 0)

\* Stull natural wet-bulb, as written twice in the source (BLOCK 5 and
\* estimate_mwl_wm2._stull_wb_c); rh ** 1.5 is rh * sqrt(rh)
StullTerm4(rh) ==
    LET p == Mul(rh, Sqrt(rh))
        c == DivRound((p \div 1000) * 39184 + ((p % 1000) * 39184) \div 1000, 10000)
    IN  Mul(c, Atan(Mul(231, rh)))

StullFormula(t, rh) ==
    Mul(t, Atan(Mul(1520, Sqrt(rh + 83137))))
    + Atan(t + rh)
    - Atan(rh - 16763)
    + StullTerm4(rh)
    - 46860

(***************************************************************************)
(* Input sets: the values the user, the instrument and the weather service *)
(* supply.  32.0004 differs from 32.0 below the signature's three decimals.*)
(***************************************************************************)
DbVals == {Dec(32, 0), Dec(32, 4), Dec(52, 0)}
RhVals == {Dec(60, 0), Dec(90, 0)}
WsVals == {Dec(1, 0), Dec(0, 2000)}
PVals == {Dec(101, 3000), Dec(100, 0)}
GtVals == {Dec(35, 0), Dec(55, 0)}
FetchTemps == {Dec(32, 0), Dec(52, 0)}
TwlVals == {0, Dec(100, 0), Dec(300, 0)}
\* the widgets of dry-bulb and wind have no min_value: a sub-zero dry-bulb,
\* calm air and a negative wind speed
DbCold == -Dec(20, 0)
WsEdge == {0, -Dec(1, 0)}
WsAll == WsVals \cup WsEdge

\* the transcendental parts are evaluated once per input value
StullMemo == [t \in DbVals \cup FetchTemps \cup {DbCold} |-> [rh \in RhVals |-> StullFormula(t, rh)]]
Stull(t, rh) == StullMemo[t][rh]

\* 1 / (1 + 0.4 sqrt(max(ws, 0.1)))
Damping(ws_ms) == Div(SCALE, SCALE + Mul(4000, Sqrt(Max(ws_ms, 1000))))
DampingMemo == [ws \in WsAll |-> Damping(ws)]

Log1pMemo == [ws \in WsAll |-> Log1p(Max(0, ws))]

_stull_wb_c(t_c, rh) == Stull(t_c, Clamp(rh, 0, Dec(100, 0)))

\* rh_mod of estimate_mwl_wm2 before its clamp
RhModRaw(rh_pct) ==
    IF rh_pct <= Dec(20, 0)
    THEN SCALE + DivRound(Mul(800, Dec(20, 0) - rh_pct), 20)
    ELSE IF rh_pct <= Dec(60, 0)
    THEN SCALE - DivRound(Mul(1000, rh_pct - Dec(20, 0)), 40)
    ELSE 9000 - DivRound(Mul(3500, rh_pct - Dec(60, 0)), 40)

estimate_mwl_wm2(db_c, rh_in, ws_in, gt_c, wbgt_c) ==
    LET rh_pct == Max(0, Min(Dec(100, 0), rh_in))
        ws_ms == Max(0, ws_in)
        mwl_base == Max(0, Min(Dec(450, 0), Dec(600, 0) - Mul(3000, Mul(wbgt_c, wbgt_c))))
        wind_mod == Max(8500, Min(14000, SCALE + Mul(1800, Log1pMemo[ws_in])))
        delta_gt == Max(0, gt_c - db_c)
        rad_mod == Max(7500, Min(10500, SCALE - Mul(50, delta_gt)))
        rh_mod == Max(5500, Min(10800, RhModRaw(rh_pct)))
        wb_c == _stull_wb_c(db_c, rh_pct)
        wb_pen == IF wb_c > Dec(25, 0)
                  THEN Max(5500, Min(SCALE, SCALE - Mul(150, wb_c - Dec(25, 0))))
                  ELSE SCALE
        mwl == Mul(Mul(Mul(Mul(mwl_base, wind_mod), rad_mod), rh_mod), wb_pen)
    IN  Max(0, Min(Dec(450, 0), mwl))

\* mutant: the weighted penalties are added to the capacity
apply_capacity_penalties_Adds(mwl_env, ppe_c, veh_c, rad_c, adh_c) ==
    LET loss == MWL_PPE_W * Max(0, ppe_c) + MWL_VEH_W * Max(0, veh_c)
                + MWL_RAD_W * Max(0, rad_c) + MWL_ADH_W * Max(0, adh_c)
    IN  Max(MWL_MIN, mwl_env + loss)

\* mutant: no MWL_MIN floor
apply_capacity_penalties_NoFloor(mwl_env, ppe_c, veh_c, rad_c, adh_c) ==
    LET loss == MWL_PPE_W * Max(0, ppe_c) + MWL_VEH_W * Max(0, veh_c)
                + MWL_RAD_W * Max(0, rad_c) + MWL_ADH_W * Max(0, adh_c)
    IN  mwl_env - loss

apply_capacity_penalties(mwl_env, ppe_c, veh_c, rad_c, adh_c) ==
    LET loss == MWL_PPE_W * Max(0, ppe_c) + MWL_VEH_W * Max(0, veh_c)
                + MWL_RAD_W * Max(0, rad_c) + MWL_ADH_W * Max(0, adh_c)
    IN  Max(MWL_MIN, mwl_env - loss)

\* BLOCK 5: wind-damped globe temperature and outdoor WBGT of a reading
GtAdj(db_c, ws_ms, gt_c) ==
    db_c + Mul(gt_c - db_c, DampingMemo[ws_ms])

WbgtFormula(db_c, rh, ws_ms, gt_c) ==
    Mul(7000, Stull(db_c, rh)) + Mul(2000, GtAdj(db_c, ws_ms, gt_c)) + Mul(1000, db_c)

\* the readings the input sets can produce (a fetch sets globe = dry-bulb + 3)
DbAll == DbVals \cup FetchTemps \cup {DbCold}
GtAll == GtVals \cup {t + Dec(3, 0) : t \in FetchTemps}

WbgtMemo ==
    [db \in DbAll |-> [rh \in RhVals |-> [ws \in WsAll |-> [gt \in GtAll |->
        WbgtFormula(db, rh, ws, gt)]]]]
WbgtRaw(db_c, rh, ws_ms, gt_c) == WbgtMemo[db_c][rh][ws_ms][gt_c]

MwlModel(db_c, rh, ws_ms, gt_c, wbgt_c) == estimate_mwl_wm2(db_c, rh, ws_ms, gt_c, wbgt_c)

(***************************************************************************)
(* State.  ss is st.session_state; run holds the event that triggered the  *)
(* last script run and the script-level variables that run computed.       *)
(***************************************************************************)
VARIABLES ss, run

vars == <<ss, run>>

MaxSaves == 2

\* exposure categories and the clamp of each (BLOCK 5B)
Cats == {"ppe", "veh", "rad", "adhoc"}

\* an event: the one widget interaction that triggers a script run
Ev(kind, val) == [kind |-> kind, val |-> val]

\* session_state after the first run of the script, which stops at the
\* landing gate (BLOCK 1 ss_default calls; widget keys not yet created)
SsInit ==
    [landing_open |-> FALSE, units |-> "metric",
     db_c |-> DB_DEFAULT, rh_pct |-> RH_DEFAULT, ws_ms |-> WS_DEFAULT,
     p_kpa |-> P_DEFAULT, gt_c |-> GT_DEFAULT,
     wbgt_raw_c |-> None, wbgt_eff_c |-> None, wbgt_base_frozen |-> None,
     penalties_applied |-> FALSE, total_penalty_c |-> 0,
     thr_A_c |-> Dec(29, 0), thr_B_c |-> Dec(32, 0), thr_C_c |-> Dec(35, 0),
     wb_safe_c |-> None, wb_strain_c |-> None, wb_danger_c |-> None,
     pen_clo_c |-> 0, pen_veh_c |-> 0, pen_rad_c |-> 0, pen_adhoc_c |-> 0,
     delta_input |-> [c \in Cats |-> 0],
     twl_measured |-> 0,
     has_loc |-> FALSE,
     confirm_reset |-> FALSE,
     prev_env_inputs_block4 |-> None, env_dirty |-> FALSE, prev_env |-> <<>>,
     twb_c |-> None,
     accl_status |-> "Acclimatized",
     use_phys |-> TRUE,
     mwl_env_sig |-> None, mwl_env_prev |-> None,
     hsp |-> None, final_risk |-> None, wbgt_sev |-> None,
     save_counter |-> 0, last_saved_id |-> -1, audit_log |-> <<>>]

RunInit ==
    [ev |-> "landing", stopped |-> TRUE, pre_applied |-> FALSE, pre_total |-> 0, reset5 |-> FALSE,
     apply_error |-> FALSE, sidebar |-> None, pre_mwl_prev |-> None,
     mwl_raw |-> None, mwl_cap |-> None, mwl_env |-> None, mwl_op |-> None,
     mwl_source |-> None, ratchet_held |-> FALSE, sig_changed |-> FALSE]

Init == ss = SsInit /\ run = RunInit

(***************************************************************************)
(* BLOCK 1 -- units radio, reset button and its confirmation               *)
(***************************************************************************)
Other(u) == IF u = "metric" THEN "imperial" ELSE "metric"

UnitsRadio(s, e) ==
    IF e.kind = "units" THEN [s EXCEPT !.units = Other(s.units)] ELSE s

\* "Yes, Reset Now": del ss[k] for k in keys_to_clear, then st.rerun(); the
\* rerun's ss_default calls restore the defaults of the keys that have one
\* mutant: the audit log is among the cleared keys
ClearKeys_ClearsLog(s) ==
    [s EXCEPT !.has_loc = FALSE,
              !.db_c = DB_DEFAULT, !.rh_pct = RH_DEFAULT, !.ws_ms = WS_DEFAULT,
              !.p_kpa = P_DEFAULT, !.gt_c = GT_DEFAULT, !.twb_c = None,
              !.wbgt_raw_c = None, !.wbgt_base_frozen = None, !.wbgt_eff_c = None,
              !.penalties_applied = FALSE, !.total_penalty_c = 0,
              !.mwl_env_sig = None, !.mwl_env_prev = None,
              !.confirm_reset = FALSE, !.audit_log = <<>>]

ClearKeys(s) ==
    [s EXCEPT !.has_loc = FALSE,
              !.db_c = DB_DEFAULT, !.rh_pct = RH_DEFAULT, !.ws_ms = WS_DEFAULT,
              !.p_kpa = P_DEFAULT, !.gt_c = GT_DEFAULT, !.twb_c = None,
              !.wbgt_raw_c = None, !.wbgt_base_frozen = None, !.wbgt_eff_c = None,
              !.penalties_applied = FALSE, !.total_penalty_c = 0,
              !.mwl_env_sig = None, !.mwl_env_prev = None,
              !.confirm_reset = FALSE]

\* mutant: the reset button clears at once, without the confirmation
ResetButtons_NoConfirm(s, e) ==
    IF e.kind = "reset_press" THEN ClearKeys(s)
    ELSE IF e.kind = "reset_yes" /\ s.confirm_reset THEN ClearKeys(s)
    ELSE IF e.kind = "reset_cancel" /\ s.confirm_reset THEN [s EXCEPT !.confirm_reset = FALSE]
    ELSE s

\* mutant: "Yes, Reset Now" only drops the confirmation flag
ResetButtons_KeepsKeys(s, e) ==
    IF e.kind = "reset_press" THEN [s EXCEPT !.confirm_reset = TRUE]
    ELSE IF e.kind = "reset_yes" /\ s.confirm_reset THEN [s EXCEPT !.confirm_reset = FALSE]
    ELSE IF e.kind = "reset_cancel" /\ s.confirm_reset THEN [s EXCEPT !.confirm_reset = FALSE]
    ELSE s

ResetButtons(s, e) ==
    IF e.kind = "reset_press" THEN [s EXCEPT !.confirm_reset = TRUE]
    ELSE IF e.kind = "reset_yes" /\ s.confirm_reset THEN ClearKeys(s)
    ELSE IF e.kind = "reset_cancel" /\ s.confirm_reset THEN [s EXCEPT !.confirm_reset = FALSE]
    ELSE s

(***************************************************************************)
(* BLOCK 3 -- a successful city search stores results; the picker then     *)
(* writes lat / lon                                                        *)
(***************************************************************************)
Block3(s, e) ==
    IF e.kind = "search_loc" THEN [s EXCEPT !.has_loc = TRUE] ELSE s

(***************************************************************************)
(* BLOCK 4 -- weather fetch, unit-aware inputs, dirty detection            *)
(***************************************************************************)
\* e.val is None for a failed fetch (current = {}), else <<temp, rh, wind>>
\* mutant: the fetch runs without the lat / lon guard
RetrieveWeather_NoGuard(s, e) ==
    IF e.kind # "fetch" THEN s
    ELSE LET temp_c == IF e.val = None THEN s.db_c ELSE e.val[1]
             rh_pct == IF e.val = None THEN s.rh_pct ELSE e.val[2]
             ws_ms == IF e.val = None THEN s.ws_ms ELSE e.val[3]
         IN  [s EXCEPT !.db_c = temp_c, !.rh_pct = rh_pct, !.ws_ms = ws_ms,
                       !.p_kpa = P_DEFAULT, !.gt_c = temp_c + Dec(3, 0),
                       !.env_dirty = TRUE]

RetrieveWeather(s, e) ==
    IF e.kind # "fetch" \/ ~s.has_loc THEN s
    ELSE LET temp_c == IF e.val = None THEN s.db_c ELSE e.val[1]
             rh_pct == IF e.val = None THEN s.rh_pct ELSE e.val[2]
             ws_ms == IF e.val = None THEN s.ws_ms ELSE e.val[3]
         IN  [s EXCEPT !.db_c = temp_c, !.rh_pct = rh_pct, !.ws_ms = ws_ms,
                       !.p_kpa = P_DEFAULT, !.gt_c = temp_c + Dec(3, 0),
                       !.env_dirty = TRUE]

\* st.number_input without a key: the user's entry if this run was triggered
\* by editing it, else the value= argument
NumberInput(e, kind, value) == IF e.kind = kind THEN e.val ELSE value

ManualInputs(s, e) ==
    LET m == s.units = "metric"
        db == IF m THEN NumberInput(e, "set_db", s.db_c)
              ELSE f_to_c(NumberInput(e, "set_db", c_to_f(s.db_c)))
        rh == NumberInput(e, "set_rh", s.rh_pct)
        ws == IF m THEN NumberInput(e, "set_ws", s.ws_ms)
              ELSE mph_to_ms(NumberInput(e, "set_ws", ms_to_mph(s.ws_ms)))
        p == IF m THEN NumberInput(e, "set_p", s.p_kpa)
             ELSE inhg_to_kpa(NumberInput(e, "set_p", kpa_to_inhg(s.p_kpa)))
        gt == IF m THEN NumberInput(e, "set_gt", s.gt_c)
              ELSE f_to_c(NumberInput(e, "set_gt", c_to_f(s.gt_c)))
    IN  [s EXCEPT !.db_c = db, !.rh_pct = rh, !.ws_ms = ws, !.p_kpa = p, !.gt_c = gt]

EnvNowBlock4(s) ==
    <<Round3(s.db_c), Round3(s.rh_pct), Round3(s.ws_ms), Round3(s.p_kpa),
      Round3(s.gt_c), s.units>>

MarkDirty(s) ==
    LET now == EnvNowBlock4(s)
    IN  IF s.prev_env_inputs_block4 = None
        THEN [s EXCEPT !.prev_env_inputs_block4 = Some(now)]
        ELSE IF Some(now) # s.prev_env_inputs_block4
        THEN [s EXCEPT !.env_dirty = TRUE, !.prev_env_inputs_block4 = Some(now)]
        ELSE s

Block4(s, e) == MarkDirty(ManualInputs(RetrieveWeather(s, e), e))

(***************************************************************************)
(* BLOCK 5 -- natural wet-bulb, WBGT baseline, freeze controller           *)
(***************************************************************************)
EnvNow(s) ==
    <<Round3(s.db_c), Round3(s.rh_pct), Round3(s.gt_c), Round3(s.ws_ms), Round3(s.p_kpa)>>

Block5Resets(s) == s.env_dirty \/ s.prev_env # EnvNow(s)

\* mutant: the reset forgets the penalties-applied flag
ResetBaseline_KeepsApplied(s) ==
    IF Block5Resets(s)
    THEN [s EXCEPT !.wbgt_base_frozen = None, !.total_penalty_c = 0,
                   !.wbgt_eff_c = None, !.prev_env = EnvNow(s), !.env_dirty = FALSE]
    ELSE s

ResetBaseline(s) ==
    IF Block5Resets(s)
    THEN [s EXCEPT !.wbgt_base_frozen = None, !.penalties_applied = FALSE,
                   !.total_penalty_c = 0, !.wbgt_eff_c = None,
                   !.prev_env = EnvNow(s), !.env_dirty = FALSE]
    ELSE s

\* mutant: the baseline follows the raw WBGT of every run instead of freezing once
FreezeOnce_Refreezes(s, wbgt_raw_c) ==
    [s EXCEPT !.twb_c = Some(Stull(s.db_c, s.rh_pct)),
              !.wbgt_raw_c = Some(wbgt_raw_c),
              !.wbgt_base_frozen = Some(wbgt_raw_c)]

\* twb_c and wbgt_raw_c are stored; the baseline is frozen if none is held
FreezeOnce(s, wbgt_raw_c) ==
    [s EXCEPT !.twb_c = Some(Stull(s.db_c, s.rh_pct)),
              !.wbgt_raw_c = Some(wbgt_raw_c),
              !.wbgt_base_frozen = IF s.wbgt_base_frozen = None
                                   THEN Some(wbgt_raw_c) ELSE s.wbgt_base_frozen]

\* while penalties are not applied, effective WBGT is the frozen baseline
TieEffective(s) ==
    IF ~s.penalties_applied THEN [s EXCEPT !.wbgt_eff_c = s.wbgt_base_frozen] ELSE s

FreezeBaseline(s) ==
    TieEffective(FreezeOnce(s, WbgtRaw(s.db_c, s.rh_pct, s.ws_ms, s.gt_c)))

\* mutant: the block resets the baseline but never freezes one
Block5_NeverFreezes(s) == ResetBaseline(s)

Block5(s) == FreezeBaseline(ResetBaseline(s))

(***************************************************************************)
(* BLOCK 5A -- instrument reference; exposure adjustment inputs            *)
(***************************************************************************)
Block5A(s, e) ==
    [s EXCEPT !.twl_measured = NumberInput(e, "set_twl", s.twl_measured)]

\* number_delta: the keyed number_input holds a display-unit number
number_delta(s, c) ==
    IF s.units = "metric" THEN s.delta_input[c] ELSE DivRound(s.delta_input[c] * 5, 9)

\* _ensure_number_follows_preset on a preset change (e.val = <<cat, preset_c>>),
\* or the user overriding the number (e.val = <<cat, number>>).  The option
\* labels of the four selectboxes carry the display unit (delta_label), so
\* after a unit switch the stored selection is not among the options: each
\* selectbox falls back to its first option, "None", the stored preset label
\* differs from the previous one and every number is forced to that preset, 0.
ExposureInputs(s, e) ==
    LET s1 == IF e.kind = "preset"
              THEN [s EXCEPT !.delta_input[e.val[1]] =
                        IF s.units = "metric" THEN e.val[2] ELSE DivRound(e.val[2] * 9, 5)]
              ELSE IF e.kind = "set_delta"
              THEN [s EXCEPT !.delta_input[e.val[1]] = e.val[2]]
              ELSE IF e.kind = "units"
              THEN [s EXCEPT !.delta_input = [c \in Cats |-> 0]]
              ELSE s
    IN  [s1 EXCEPT !.pen_clo_c = number_delta(s1, "ppe"),
                   !.pen_veh_c = number_delta(s1, "veh"),
                   !.pen_rad_c = number_delta(s1, "rad"),
                   !.pen_adhoc_c = number_delta(s1, "adhoc")]

(***************************************************************************)
(* BLOCK 5B -- apply penalties.  compute_counter and last_compute_ts are   *)
(* written here and read nowhere in the script; they are not part of ss.   *)
(***************************************************************************)
\* mutant: the global cap of 10 is missing
TotalPenalty_NoCap(ppe, encl, rad, ahoc) ==
    Min(Max(ppe, 0), Dec(3, 0)) + Min(Max(encl, 0), Dec(3, 0))
    + Min(Max(rad, 0), Dec(5, 0)) + Min(Max(ahoc, 0), Dec(4, 0))

TotalPenalty(ppe, encl, rad, ahoc) ==
    LET ppe_c == Min(Max(ppe, 0), Dec(3, 0))
        encl_c == Min(Max(encl, 0), Dec(3, 0))
        rad_c == Min(Max(rad, 0), Dec(5, 0))
        ahoc_c == Min(Max(ahoc, 0), Dec(4, 0))
    IN  Min(ppe_c + encl_c + rad_c + ahoc_c, Dec(10, 0))

ApplyErrors(s, e) == e.kind = "apply" /\ s.wbgt_base_frozen = None

\* mutant: the penalty is added to the previous effective WBGT
Block5B_Stacks(s, e) ==
    IF e.kind # "apply" THEN s
    ELSE IF s.wbgt_base_frozen = None THEN s
    ELSE LET total_penalty_c ==
                 TotalPenalty(s.pen_clo_c, s.pen_veh_c, s.pen_rad_c, s.pen_adhoc_c)
         IN  [s EXCEPT !.total_penalty_c = total_penalty_c,
                       !.wbgt_eff_c = Some(Val(s.wbgt_eff_c) + total_penalty_c),
                       !.penalties_applied = TRUE]

Block5B(s, e) ==
    IF e.kind # "apply" THEN s
    ELSE IF s.wbgt_base_frozen = None THEN s
    ELSE LET total_penalty_c ==
                 TotalPenalty(s.pen_clo_c, s.pen_veh_c, s.pen_rad_c, s.pen_adhoc_c)
         IN  [s EXCEPT !.total_penalty_c = total_penalty_c,
                       !.wbgt_eff_c = Some(Val(s.wbgt_base_frozen) + total_penalty_c),
                       !.penalties_applied = TRUE]

(***************************************************************************)
(* BLOCK 6 -- thresholds with acclimatization                              *)
(***************************************************************************)
OtherAccl(a) == IF a = "Acclimatized" THEN "Not acclimatized" ELSE "Acclimatized"

A_base == Dec(29, 0)
B_base == Dec(32, 0)
C_base == Dec(35, 0)

\* mutant: the shift of the non-acclimatized cut-points goes up instead of down
Block6_ShiftsUp(s, e) ==
    LET accl_status == IF e.kind = "set_accl" THEN OtherAccl(s.accl_status) ELSE s.accl_status
        shift == IF accl_status = "Acclimatized" THEN 0 ELSE Dec(2, 0)
    IN  [s EXCEPT !.accl_status = accl_status,
                  !.thr_A_c = A_base + shift, !.thr_B_c = B_base + shift,
                  !.thr_C_c = C_base + shift,
                  !.wb_safe_c = Some(Dec(26, 0) - shift),
                  !.wb_strain_c = Some(Dec(28, 0) - shift),
                  !.wb_danger_c = Some(Dec(30, 0) - shift)]

\* mutant: the withdrawal cut-point ignores the acclimatization shift
Block6_NoShiftC(s, e) ==
    LET accl_status == IF e.kind = "set_accl" THEN OtherAccl(s.accl_status) ELSE s.accl_status
        shift == IF accl_status = "Acclimatized" THEN 0 ELSE Dec(2, 0)
    IN  [s EXCEPT !.accl_status = accl_status,
                  !.thr_A_c = A_base - shift, !.thr_B_c = B_base - shift,
                  !.thr_C_c = C_base,
                  !.wb_safe_c = Some(Dec(26, 0) - shift),
                  !.wb_strain_c = Some(Dec(28, 0) - shift),
                  !.wb_danger_c = Some(Dec(30, 0) - shift)]

Block6(s, e) ==
    LET accl_status == IF e.kind = "set_accl" THEN OtherAccl(s.accl_status) ELSE s.accl_status
        shift == IF accl_status = "Acclimatized" THEN 0 ELSE Dec(2, 0)
    IN  [s EXCEPT !.accl_status = accl_status,
                  !.thr_A_c = A_base - shift, !.thr_B_c = B_base - shift,
                  !.thr_C_c = C_base - shift,
                  !.wb_safe_c = Some(Dec(26, 0) - shift),
                  !.wb_strain_c = Some(Dec(28, 0) - shift),
                  !.wb_danger_c = Some(Dec(30, 0) - shift)]

(***************************************************************************)
(* BLOCK 7 -- WBGT band, MWL cap and ratchet, HSP, override                *)
(***************************************************************************)
\* severity 0 LOW, 1 CAUTION, 2 HIGH STRAIN, 3 WITHDRAWAL
\* mutant: closed upper ends, a value on a cut-point stays in the lower band
_wbgt_band_from_eff_Closed(wbgt_eff_c, A, B, C) ==
    IF wbgt_eff_c <= A THEN 0
    ELSE IF wbgt_eff_c <= B THEN 1
    ELSE IF wbgt_eff_c <= C THEN 2
    ELSE 3

_wbgt_band_from_eff(wbgt_eff_c, A, B, C) ==
    IF wbgt_eff_c < A THEN 0
    ELSE IF wbgt_eff_c < B THEN 1
    ELSE IF wbgt_eff_c < C THEN 2
    ELSE 3

\* mutant: severity 2 is named CAUTION
RiskName_Lowers(sev) ==
    IF sev >= 3 THEN "WITHDRAWAL"
    ELSE IF sev = 2 THEN "CAUTION"
    ELSE IF sev = 1 THEN "CAUTION"
    ELSE "LOW"

RiskName(sev) ==
    IF sev >= 3 THEN "WITHDRAWAL"
    ELSE IF sev = 2 THEN "HIGH STRAIN"
    ELSE IF sev = 1 THEN "CAUTION"
    ELSE "LOW"

\* mutant: the globe >= 45 rule is tested before the still-air rule
MwlCap_Reordered(gt, ws, wbgt_env) ==
    IF gt >= Dec(45, 0) THEN Dec(140, 0)
    ELSE IF gt >= Dec(50, 0) /\ ws < Dec(0, 5000) THEN Dec(115, 0)
    ELSE IF wbgt_env >= Dec(33, 0) THEN Dec(170, 0)
    ELSE IF wbgt_env >= Dec(30, 0) THEN Dec(220, 0)
    ELSE Dec(280, 0)

MwlCap(gt, ws, wbgt_env) ==
    IF gt >= Dec(50, 0) /\ ws < Dec(0, 5000) THEN Dec(115, 0)
    ELSE IF gt >= Dec(45, 0) THEN Dec(140, 0)
    ELSE IF wbgt_env >= Dec(33, 0) THEN Dec(170, 0)
    ELSE IF wbgt_env >= Dec(30, 0) THEN Dec(220, 0)
    ELSE Dec(280, 0)

\* mutant: the instrument reading is ignored
MwlRaw_IgnoresInstrument(s, wbgt_env) ==
    MwlModel(s.db_c, s.rh_pct, s.ws_ms, s.gt_c, wbgt_env)

MwlRaw(s, wbgt_env) ==
    IF s.twl_measured > 0 THEN s.twl_measured
    ELSE MwlModel(s.db_c, s.rh_pct, s.ws_ms, s.gt_c, wbgt_env)

MwlEnvSig(s, wbgt_env) ==
    <<Round2(s.db_c), Round2(s.rh_pct), Round2(s.ws_ms), Round2(s.gt_c),
      Round2(wbgt_env), Round2(s.total_penalty_c)>>

RATCHET_SENTINEL == Dec(9999, 0)

\* mutant: no ratchet memory
MwlEnv_NoMemory(s, wbgt_env) ==
    Min(MwlRaw(s, wbgt_env), MwlCap(s.gt_c, s.ws_ms, wbgt_env))

\* min(raw, cap, previous memory); the memory is popped when the signature differs
MwlEnv(s, wbgt_env) ==
    LET prev_mwl == IF s.mwl_env_sig # Some(MwlEnvSig(s, wbgt_env)) \/ s.mwl_env_prev = None
                    THEN RATCHET_SENTINEL ELSE Val(s.mwl_env_prev)
    IN  Min(Min(MwlRaw(s, wbgt_env), MwlCap(s.gt_c, s.ws_ms, wbgt_env)), prev_mwl)

MwlOp(s, mwl_env) ==
    apply_capacity_penalties(mwl_env, s.pen_clo_c, s.pen_veh_c, s.pen_rad_c, s.pen_adhoc_c)

\* mutant: the reference WBGT is 25 instead of 30
Hsp_Reference25(wbgt_op, mwl_op) == Div(wbgt_op * 200, Max(SCALE, mwl_op) * 25)

Hsp(wbgt_op, mwl_op) == Div(wbgt_op * 200, Max(SCALE, mwl_op) * 30)

\* mutant: the middle rule escalates from LOW only
Override_SkipsCaution(use_phys, hsp, band) ==
    IF use_phys /\ hsp # None
    THEN IF Val(hsp) >= Dec(1, 3000) THEN "WITHDRAWAL"
         ELSE IF Val(hsp) >= Dec(1, 0) /\ band \in {"LOW"} THEN "HIGH STRAIN"
         ELSE IF Dec(0, 8000) <= Val(hsp) /\ Val(hsp) < Dec(1, 0) /\ band = "LOW" THEN "CAUTION"
         ELSE band
    ELSE band

Override(use_phys, hsp, band) ==
    IF use_phys /\ hsp # None
    THEN IF Val(hsp) >= Dec(1, 3000) THEN "WITHDRAWAL"
         ELSE IF Val(hsp) >= Dec(1, 0) /\ band \in {"LOW", "CAUTION"} THEN "HIGH STRAIN"
         ELSE IF Dec(0, 8000) <= Val(hsp) /\ Val(hsp) < Dec(1, 0) /\ band = "LOW" THEN "CAUTION"
         ELSE band
    ELSE band

\* the script stops before BLOCK 7 when there is no effective WBGT
Block7Stops(s) == s.wbgt_eff_c = None

\* MWL and HSP section: ratchet memory, operational capacity, HSP, final risk
Block7Hsp(s, use_phys, sev, wbgt_env, mwl_env, hsp) ==
    [s EXCEPT !.wbgt_sev = Some(sev), !.use_phys = use_phys,
              !.mwl_env_sig = Some(MwlEnvSig(s, wbgt_env)),
              !.mwl_env_prev = Some(mwl_env),
              !.hsp = Some(hsp),
              !.final_risk = Some(Override(use_phys, Some(hsp), RiskName(sev)))]

Block7Env(s, use_phys, sev, wbgt_env, mwl_env) ==
    Block7Hsp(s, use_phys, sev, wbgt_env, mwl_env,
              Hsp(Val(s.wbgt_eff_c), MwlOp(s, mwl_env)))

Block7Band(s, use_phys, sev) ==
    IF s.wbgt_base_frozen = None
    THEN [s EXCEPT !.wbgt_sev = Some(sev), !.use_phys = use_phys,
                   !.final_risk = Some(Override(use_phys, None, RiskName(sev)))]
    ELSE Block7Env(s, use_phys, sev, Val(s.wbgt_base_frozen),
                   MwlEnv(s, Val(s.wbgt_base_frozen)))

Block7(s, e) ==
    Block7Band(s, IF e.kind = "use_phys" THEN ~s.use_phys ELSE s.use_phys,
               _wbgt_band_from_eff(Val(s.wbgt_eff_c), s.thr_A_c, s.thr_B_c, s.thr_C_c))

(***************************************************************************)
(* BLOCK 8 -- audit log                                                    *)
(***************************************************************************)
\* f"{x:.1f}"
Fmt1(x) == RoundTo(x, 1000)
Fmt1Opt(o) == IF o = None THEN None ELSE Some(Fmt1(Val(o)))

\* mutant: the record takes the raw WBGT of the run as effective WBGT
LogEntry_RawWbgt(s) ==
    [db |-> Fmt1(s.db_c), rh |-> RoundTo(s.rh_pct, SCALE), gt |-> Fmt1(s.gt_c),
     ws |-> Round2(s.ws_ms), wb |-> Fmt1Opt(s.twb_c),
     baseline |-> Fmt1Opt(s.wbgt_base_frozen), total |-> Fmt1(s.total_penalty_c),
     eff |-> Fmt1(Val(s.wbgt_raw_c)),
     hsp |-> IF s.hsp = None THEN None ELSE Some(Round2(Val(s.hsp))),
     risk |-> s.final_risk]

LogEntry(s) ==
    [db |-> Fmt1(s.db_c), rh |-> RoundTo(s.rh_pct, SCALE), gt |-> Fmt1(s.gt_c),
     ws |-> Round2(s.ws_ms), wb |-> Fmt1Opt(s.twb_c),
     baseline |-> Fmt1Opt(s.wbgt_base_frozen), total |-> Fmt1(s.total_penalty_c),
     eff |-> Fmt1(Val(s.wbgt_eff_c)),
     hsp |-> IF s.hsp = None THEN None ELSE Some(Round2(Val(s.hsp))),
     risk |-> s.final_risk]

\* mutant: last_saved_id is not updated after the append
Block8_NoLatch(s, e) ==
    LET s1 == IF e.kind = "save" THEN [s EXCEPT !.save_counter = s.save_counter + 1] ELSE s
    IN  IF s1.save_counter # s1.last_saved_id /\ s1.wbgt_eff_c # None
        THEN [s1 EXCEPT !.audit_log = Append(s1.audit_log, LogEntry(s1))]
        ELSE s1

Block8(s, e) ==
    LET s1 == IF e.kind = "save" THEN [s EXCEPT !.save_counter = s.save_counter + 1] ELSE s
    IN  IF s1.save_counter # s1.last_saved_id /\ s1.wbgt_eff_c # None
        THEN [s1 EXCEPT !.audit_log = Append(s1.audit_log, LogEntry(s1)),
                        !.last_saved_id = s1.save_counter]
        ELSE s1

(***************************************************************************)
(* One script run, top to bottom, past the landing gate                    *)
(***************************************************************************)
\* the script-level variables at the end of the run: s is ss before the run,
\* s1 after BLOCK 3, s4 after BLOCK 4, s5a after the exposure inputs, s6 after
\* BLOCK 6
RunVars(s, e, s1, s4, s5a, s6, hasEnv, mwl_raw, mwl_cap, mwl_env) ==
    [ev |-> e.kind,
     stopped |-> Block7Stops(s6),
     pre_applied |-> s.penalties_applied,
     pre_total |-> s.total_penalty_c,
     pre_mwl_prev |-> s.mwl_env_prev,
     reset5 |-> Block5Resets(s4),
     apply_error |-> ApplyErrors(s5a, e),
     sidebar |-> Some(<<s1.thr_A_c, s1.thr_B_c, s1.thr_C_c>>),
     mwl_raw |-> IF hasEnv THEN Some(mwl_raw) ELSE None,
     mwl_cap |-> IF hasEnv THEN Some(mwl_cap) ELSE None,
     mwl_env |-> IF hasEnv THEN Some(mwl_env) ELSE None,
     mwl_op |-> IF hasEnv THEN Some(MwlOp(s6, mwl_env)) ELSE None,
     mwl_source |-> IF ~hasEnv THEN None
                    ELSE IF s6.twl_measured > 0
                    THEN Some("Instrument capacity input")
                    ELSE Some("Model"),
     ratchet_held |-> hasEnv /\ mwl_env < Min(mwl_raw, mwl_cap),
     sig_changed |-> hasEnv /\ s6.mwl_env_sig # Some(MwlEnvSig(s6, Val(s6.wbgt_base_frozen)))]

\* one script run from session s on event e
RunScript(s, e) ==
    \E s1 \in {Block3(ResetButtons(UnitsRadio(s, e), e), e)} :
    \E s4 \in {Block4(s1, e)} :
    \E s5a \in {ExposureInputs(Block5A(Block5(s4), e), e)} :
    \E s6 \in {Block6(Block5B(s5a, e), e)} :
        /\ ss' = IF Block7Stops(s6) THEN s6 ELSE Block8(Block7(s6, e), e)
        /\ run' = RunVars(s, e, s1, s4, s5a, s6,
                          ~Block7Stops(s6) /\ s6.wbgt_base_frozen # None,
                          MwlRaw(s6, Val(s6.wbgt_base_frozen)),
                          MwlCap(s6.gt_c, s6.ws_ms, Val(s6.wbgt_base_frozen)),
                          MwlEnv(s6, Val(s6.wbgt_base_frozen)))

Eval(e) == RunScript(ss, e)

(***************************************************************************)
(* Events.  Each action is one user interaction and the script run it      *)
(* triggers.  Values the user types are given in canonical units and       *)
(* converted to what the widget shows in the current display units.        *)
(***************************************************************************)
ShownTemp(v) == IF ss.units = "metric" THEN v ELSE c_to_f(v)
ShownSpeed(v) == IF ss.units = "metric" THEN v ELSE ms_to_mph(v)
ShownPressure(v) == IF ss.units = "metric" THEN v ELSE kpa_to_inhg(v)

\* "Start Heat-Stress Assessment": opens the gate and reruns
Start ==
    /\ ~ss.landing_open
    /\ RunScript([ss EXCEPT !.landing_open = TRUE], Ev("start", None))

Rerender == ss.landing_open /\ Eval(Ev("rerender", None))

ToggleUnits == ss.landing_open /\ Eval(Ev("units", None))

ResetPress == ss.landing_open /\ Eval(Ev("reset_press", None))

ResetYes == ss.landing_open /\ ss.confirm_reset /\ Eval(Ev("reset_yes", None))

ResetCancel == ss.landing_open /\ ss.confirm_reset /\ Eval(Ev("reset_cancel", None))

SearchLocation == ss.landing_open /\ ~ss.has_loc /\ Eval(Ev("search_loc", None))

RetrieveNoLocation == ss.landing_open /\ ~ss.has_loc /\ Eval(Ev("fetch", None))

RetrieveFails == ss.landing_open /\ ss.has_loc /\ Eval(Ev("fetch", None))

RetrieveOk(t, rh, ws) == ss.landing_open /\ ss.has_loc /\ Eval(Ev("fetch", <<t, rh, ws>>))

SetDb(v) == ss.landing_open /\ v # ss.db_c /\ Eval(Ev("set_db", ShownTemp(v)))

SetRh(v) == ss.landing_open /\ v # ss.rh_pct /\ Eval(Ev("set_rh", v))

SetWs(v) == ss.landing_open /\ v # ss.ws_ms /\ Eval(Ev("set_ws", ShownSpeed(v)))

SetP(v) == ss.landing_open /\ v # ss.p_kpa /\ Eval(Ev("set_p", ShownPressure(v)))

SetGt(v) == ss.landing_open /\ v # ss.gt_c /\ Eval(Ev("set_gt", ShownTemp(v)))

SetTwl(v) == ss.landing_open /\ v # ss.twl_measured /\ Eval(Ev("set_twl", v))

\* choosing another preset of a category (preset value in degrees C)
SelectPreset(c, v) == ss.landing_open /\ Eval(Ev("preset", <<c, v>>))

\* typing a number into the category's delta input (display units)
SetDelta(c, v) == ss.landing_open /\ v # ss.delta_input[c] /\ Eval(Ev("set_delta", <<c, v>>))

Apply == ss.landing_open /\ Eval(Ev("apply", None))

SetAccl == ss.landing_open /\ Eval(Ev("set_accl", None))

ToggleUsePhys == ss.landing_open /\ Eval(Ev("use_phys", None))

Save == ss.landing_open /\ ss.save_counter < MaxSaves /\ Eval(Ev("save", None))


PPE_PRESETS == {0, Dec(1, 0), Dec(2, 0), Dec(3, 0)}
VEHICLE_PRESETS == {0, Dec(1, 0), Dec(2, 0), Dec(3, 0)}
RADIANT_PRESETS == {0, Dec(2, 0), Dec(4, 0), Dec(5, 0)}
ADHOC_PRESETS == {0, Dec(1, 0), Dec(2, 0), Dec(4, 0)}

\* the freeze controller: edits of dry-bulb, RH, pressure and globe (wind is
\* edited under SpecMwl), the units radio, one category and apply
NextFreeze ==
    \/ Start
    \/ Rerender
    \/ ToggleUnits
    \/ \E v \in DbVals : SetDb(v)
    \/ \E v \in RhVals : SetRh(v)
    \/ \E v \in PVals : SetP(v)
    \/ \E v \in GtVals : SetGt(v)
    \/ \E v \in {0, Dec(2, 0)} : SelectPreset("ppe", v)
    \/ Apply

SpecFreeze == Init /\ [][NextFreeze]_vars

\* the exposure adjustments: four categories, presets and typed numbers below
\* 0 and above the category maximum, in both display units
NextPen ==
    \/ Start
    \/ Rerender
    \/ ToggleUnits
    \/ \E v \in {0, Dec(3, 0)} : SelectPreset("ppe", v)
    \/ SelectPreset("veh", Dec(3, 0))
    \/ SelectPreset("rad", Dec(5, 0))
    \/ SetDelta("ppe", Dec(4, 0))
    \/ SetDelta("rad", Dec(6, 0))
    \/ SetDelta("adhoc", -Dec(1, 0))
    \/ Apply

SpecPen == Init /\ [][NextPen]_vars

\* the cooling-capacity estimator: readings, instrument capacity, one
\* category, apply and reset
NextMwl ==
    \/ Start
    \/ Rerender
    \/ ResetPress
    \/ ResetYes
    \/ ResetCancel
    \/ \E v \in {Dec(32, 0), Dec(52, 0)} : SetDb(v)
    \/ \E v \in RhVals : SetRh(v)
    \/ \E v \in WsVals : SetWs(v)
    \/ \E v \in GtVals : SetGt(v)
    \/ \E v \in TwlVals : SetTwl(v)
    \/ \E v \in {0, Dec(3, 0)} : SelectPreset("ppe", v)
    \/ Apply

SpecMwl == Init /\ [][NextMwl]_vars

\* the classifier: acclimatization, the HSP override checkbox, an instrument
\* capacity, and adjustments that put effective WBGT on the cut-points
\* (28.0848 + 0.9152 = 29, + 3 = 32, + 3 = 35)
NextRisk ==
    \/ Start
    \/ Rerender
    \/ SetAccl
    \/ ToggleUsePhys
    \/ \E v \in {0, Dec(100, 0)} : SetTwl(v)
    \/ \E v \in {0, Dec(3, 0)} : SelectPreset("ppe", v)
    \/ \E v \in {0, Dec(3, 0)} : SelectPreset("veh", v)
    \/ SetDelta("adhoc", Dec(0, 9152))
    \/ Apply

SpecRisk == Init /\ [][NextRisk]_vars

\* the audit log: saves, the events that must not save, and reset
NextAudit ==
    \/ Start
    \/ Rerender
    \/ ResetPress
    \/ ResetYes
    \/ SetDb(Dec(52, 0))
    \/ SelectPreset("ppe", Dec(2, 0))
    \/ Apply
    \/ Save

SpecAudit == Init /\ [][NextAudit]_vars

\* the weather fetch: with and without a location, failing and succeeding,
\* next to manual edits of the two fields a fetch overwrites with constants
NextFetch ==
    \/ Start
    \/ Rerender
    \/ SearchLocation
    \/ RetrieveNoLocation
    \/ RetrieveFails
    \/ \E t \in FetchTemps : \E rh \in RhVals : RetrieveOk(t, rh, Dec(1, 0))
    \/ \E v \in GtVals : SetGt(v)
    \/ \E v \in PVals : SetP(v)
    \/ SelectPreset("ppe", Dec(2, 0))
    \/ Apply

SpecFetch == Init /\ [][NextFetch]_vars

\* readings at the edge of what the widgets accept: calm and negative wind,
\* a sub-zero dry-bulb; with an instrument capacity, one category and apply
NextEdge ==
    \/ Start
    \/ Rerender
    \/ \E v \in {Dec(32, 0), DbCold} : SetDb(v)
    \/ \E v \in {Dec(1, 0)} \cup WsEdge : SetWs(v)
    \/ \E v \in {0, Dec(100, 0)} : SetTwl(v)
    \/ \E v \in {0, Dec(3, 0)} : SelectPreset("ppe", v)
    \/ Apply

SpecEdge == Init /\ [][NextEdge]_vars

\* the content of the records: a reading edit, a preset, a typed delta with
\* more than one decimal, apply and save
NextRecord ==
    \/ Start
    \/ SetDb(Dec(52, 0))
    \/ SelectPreset("ppe", Dec(2, 0))
    \/ SetDelta("ppe", Dec(0, 9600))
    \/ Apply
    \/ Save

SpecRecord == Init /\ [][NextRecord]_vars

(***************************************************************************)
(* Properties of the freeze controller                                     *)
(***************************************************************************)
\* the rounded environment signature of the reading held in ss
Signature(s) ==
    <<Round3(s.db_c), Round3(s.rh_pct), Round3(s.ws_ms), Round3(s.gt_c), Round3(s.p_kpa)>>

Evaluated(s) == s.landing_open /\ s.wbgt_base_frozen # None

\* C1: across two consecutive evaluations with the same rounded signature and
\* no confirmed reset, the frozen baseline WBGT keeps its value, whatever the
\* event between them was.
C1_FrozenBaselineKept ==
    [][(Evaluated(ss) /\ Signature(ss') = Signature(ss) /\ run'.ev # "reset_yes")
        => ss'.wbgt_base_frozen = ss.wbgt_base_frozen]_vars

\* C2: after an apply, an evaluation without apply in which the rounded
\* signature changed replaces the frozen baseline by the WBGT of the new
\* reading, clears penalties-applied and the total, and sets effective WBGT to
\* the new baseline; with penalties not applied, an evaluation without apply
\* keeps effective WBGT at the frozen baseline.
C2_SignatureChangeClears ==
    [][/\ (ss.penalties_applied /\ Signature(ss') # Signature(ss) /\ run'.ev # "apply")
            => /\ ss'.wbgt_base_frozen =
                      Some(WbgtRaw(ss'.db_c, ss'.rh_pct, ss'.ws_ms, ss'.gt_c))
               /\ ~ss'.penalties_applied
               /\ ss'.total_penalty_c = 0
               /\ ss'.wbgt_eff_c = ss'.wbgt_base_frozen
       /\ (Evaluated(ss) /\ ~ss.penalties_applied /\ run'.ev # "apply")
            => /\ ~ss'.penalties_applied
               /\ ss'.total_penalty_c = 0
               /\ ss'.wbgt_eff_c = ss'.wbgt_base_frozen]_vars

\* a dry-bulb edit changed the signature of a reading whose penalties were applied
C2_Witness ==
    /\ run.ev = "set_db" /\ run.pre_applied /\ run.pre_total > 0 /\ run.reset5
    /\ ~ss.penalties_applied /\ ss.wbgt_eff_c = ss.wbgt_base_frozen

\* C3: after an apply, effective WBGT stays frozen baseline + total penalty and
\* penalties-applied stays true in every later evaluation, until a re-apply, a
\* signature change or a confirmed reset.
C3_EffectiveHeldUntilChange ==
    [][(ss.penalties_applied /\ run'.ev # "apply" /\ run'.ev # "reset_yes"
        /\ Signature(ss') = Signature(ss))
        => /\ ss'.penalties_applied
           /\ ss'.wbgt_eff_c = ss.wbgt_eff_c
           /\ ss'.wbgt_eff_c = Some(Val(ss'.wbgt_base_frozen) + ss'.total_penalty_c)]_vars

\* the readings that round to the signature of the current one
SameSignatureReadings(s) ==
    {r \in DbAll \X RhVals \X WsVals \X GtAll :
        <<Round3(r[1]), Round3(r[2]), Round3(r[3]), Round3(r[4])>>
            = <<Round3(s.db_c), Round3(s.rh_pct), Round3(s.ws_ms), Round3(s.gt_c)>>}

\* C4: at the end of every evaluation effective WBGT = frozen baseline + total
\* penalty, the baseline being one frozen for the current signature; with
\* penalties not applied the total is 0 and effective WBGT is the baseline.
C4_EffectiveIsBaselinePlusTotal ==
    ss.landing_open =>
        /\ ss.wbgt_base_frozen # None /\ ss.wbgt_eff_c # None
        /\ Val(ss.wbgt_eff_c) = Val(ss.wbgt_base_frozen) + ss.total_penalty_c
        /\ ss.prev_env = EnvNow(ss)
        /\ \E r \in SameSignatureReadings(ss) :
               Val(ss.wbgt_base_frozen) = WbgtRaw(r[1], r[2], r[3], r[4])
        /\ ~ss.penalties_applied =>
               (ss.total_penalty_c = 0 /\ ss.wbgt_eff_c = ss.wbgt_base_frozen)

\* penalties applied against a baseline that was frozen before a sub-rounding edit
C4_Witness ==
    /\ ss.penalties_applied /\ ss.total_penalty_c > 0
    /\ ss.wbgt_base_frozen # ss.wbgt_raw_c

(***************************************************************************)
(* Properties of the exposure adjustments                                  *)
(***************************************************************************)
ClampTo(x, hi) == IF x < 0 THEN 0 ELSE IF x > hi THEN hi ELSE x

\* min(10, clamp(ppe,0,3) + clamp(vehicle,0,3) + clamp(radiant,0,5) + clamp(adhoc,0,4))
\* of the selections held in ss
CappedSum(s) ==
    LET sum == ClampTo(s.pen_clo_c, Dec(3, 0)) + ClampTo(s.pen_veh_c, Dec(3, 0))
               + ClampTo(s.pen_rad_c, Dec(5, 0)) + ClampTo(s.pen_adhoc_c, Dec(4, 0))
    IN  IF sum > Dec(10, 0) THEN Dec(10, 0) ELSE sum

Selections(s) == <<s.pen_clo_c, s.pen_veh_c, s.pen_rad_c, s.pen_adhoc_c>>

\* C5: an apply with a frozen baseline sets effective WBGT = frozen baseline +
\* min(10, sum of the clamped category deltas) and marks penalties applied;
\* applying again with the same selections and baseline gives the same
\* effective WBGT.
C5_ApplyFromFrozenBaseline ==
    [][(run'.ev = "apply" /\ ss'.wbgt_base_frozen # None)
        => /\ ss'.wbgt_eff_c = Some(Val(ss'.wbgt_base_frozen) + CappedSum(ss'))
           /\ ss'.total_penalty_c = CappedSum(ss')
           /\ ss'.penalties_applied
           /\ ((run.ev = "apply" /\ Selections(ss') = Selections(ss)
                /\ ss'.wbgt_base_frozen = ss.wbgt_base_frozen)
                  => ss'.wbgt_eff_c = ss.wbgt_eff_c)]_vars

\* an apply on top of applied, non-zero penalties, with every category selected
C5_Witness ==
    /\ run.ev = "apply" /\ run.pre_applied /\ run.pre_total > 0
    /\ ss.pen_clo_c > 0 /\ ss.pen_veh_c > 0 /\ ss.pen_rad_c > 0
    /\ ss.wbgt_eff_c = Some(Val(ss.wbgt_base_frozen) + ss.total_penalty_c)

\* C6: the stored total penalty is in [0, 10] in every reachable state, and so
\* is effective WBGT minus frozen baseline.
C6_TotalPenaltyBounded ==
    /\ 0 <= ss.total_penalty_c /\ ss.total_penalty_c <= Dec(10, 0)
    /\ (ss.wbgt_eff_c # None) =>
           /\ ss.wbgt_base_frozen # None
           /\ 0 <= Val(ss.wbgt_eff_c) - Val(ss.wbgt_base_frozen)
           /\ Val(ss.wbgt_eff_c) - Val(ss.wbgt_base_frozen) <= Dec(10, 0)

\* applied deltas above their category maximum and below 0, clamped sum above 10
C6_Witness ==
    /\ ss.penalties_applied /\ ss.total_penalty_c = Dec(10, 0)
    /\ ss.pen_clo_c > Dec(3, 0) /\ ss.pen_rad_c > Dec(5, 0) /\ ss.pen_adhoc_c < 0
    /\ Val(ss.wbgt_eff_c) - Val(ss.wbgt_base_frozen) = Dec(10, 0)

\* C8: an evaluation in which only a category selection changes (no apply)
\* leaves total penalty, effective WBGT, operational capacity, HSP and final
\* risk unchanged.
C8_SelectionNeedsApply ==
    [][(Evaluated(ss) /\ run'.ev \in {"preset", "set_delta"})
        => /\ ss'.total_penalty_c = ss.total_penalty_c
           /\ ss'.wbgt_eff_c = ss.wbgt_eff_c
           /\ run'.mwl_op = run.mwl_op
           /\ ss'.hsp = ss.hsp
           /\ ss'.final_risk = ss.final_risk]_vars

(***************************************************************************)
(* Properties of the cooling-capacity estimator                            *)
(***************************************************************************)
Computed(r) == r.mwl_env # None

\* C9 as claimed: environmental capacity is non-increasing across consecutive
\* evaluations with the same ratchet signature, and after a signature change
\* it is the fresh min(raw, cap).
C9_RatchetAsClaimed ==
    [][(Computed(run) /\ Computed(run'))
        => /\ ss'.mwl_env_sig = ss.mwl_env_sig
                 => Val(run'.mwl_env) <= Val(run.mwl_env)
           /\ ss'.mwl_env_sig # ss.mwl_env_sig
                 => Val(run'.mwl_env) = Min(Val(run'.mwl_raw), Val(run'.mwl_cap))]_vars

\* C9 amended: the same, for evaluations other than the one a confirmed reset
\* triggers; that one also yields the fresh min(raw, cap).
C9_Ratchet ==
    [][(Computed(run) /\ Computed(run'))
        => /\ (ss'.mwl_env_sig = ss.mwl_env_sig /\ run'.ev # "reset_yes")
                 => Val(run'.mwl_env) <= Val(run.mwl_env)
           /\ (ss'.mwl_env_sig # ss.mwl_env_sig \/ run'.ev = "reset_yes")
                 => Val(run'.mwl_env) = Min(Val(run'.mwl_raw), Val(run'.mwl_cap))]_vars

\* the memory of an earlier run holds the capacity below the fresh min(raw, cap)
C9_Witness ==
    /\ run.ratchet_held /\ ~run.sig_changed
    /\ Val(run.mwl_env) < Min(Val(run.mwl_raw), Val(run.mwl_cap))

\* the cap table of the claim, first matching rule wins
CapTable(globe, wind, wbgt) ==
    CASE globe >= Dec(50, 0) /\ wind < Dec(0, 5000) -> Dec(115, 0)
      [] ~(globe >= Dec(50, 0) /\ wind < Dec(0, 5000)) /\ globe >= Dec(45, 0) -> Dec(140, 0)
      [] globe < Dec(45, 0) /\ wbgt >= Dec(33, 0) -> Dec(170, 0)
      [] globe < Dec(45, 0) /\ wbgt < Dec(33, 0) /\ wbgt >= Dec(30, 0) -> Dec(220, 0)
      [] OTHER -> Dec(280, 0)

\* C10: in every evaluation the environmental capacity is at most the cap of
\* the table for the reading and the frozen baseline WBGT; for globe 55 and
\* wind 0.2 the cap is 115.
C10_CapacityCapped ==
    Computed(run) =>
        /\ Val(run.mwl_env) <= CapTable(ss.gt_c, ss.ws_ms, Val(ss.wbgt_base_frozen))
        /\ ((ss.gt_c = Dec(55, 0) /\ ss.ws_ms = Dec(0, 2000))
               => (run.mwl_cap = Some(Dec(115, 0)) /\ Val(run.mwl_env) <= Dec(115, 0)))

\* globe 55, wind 0.2, an instrument reading of 300: the cap of 115 binds
C10_Witness ==
    /\ ss.gt_c = Dec(55, 0) /\ ss.ws_ms = Dec(0, 2000)
    /\ ss.twl_measured = Dec(300, 0)
    /\ run.mwl_env = Some(Dec(115, 0))

(***************************************************************************)
(* Properties of the capacity source and floor                             *)
(***************************************************************************)
\* the ratchet memory the run started from: none after a signature change
\* (a confirmed reset deletes the stored signature) or when none was stored
MemoryUsed(r) ==
    IF r.sig_changed \/ r.pre_mwl_prev = None THEN RATCHET_SENTINEL ELSE Val(r.pre_mwl_prev)

Least3(a, b, c) ==
    IF a <= b /\ a <= c THEN a ELSE IF b <= c THEN b ELSE c

\* C11: with an instrument reading > 0 the raw capacity is the reading, the
\* source is tagged as instrument and environmental capacity = min(reading,
\* cap, ratchet memory); with a reading of 0 the raw capacity is the modelled
\* one and the source is tagged as model.
C11_InstrumentReplacesModel ==
    Computed(run) =>
        /\ (ss.twl_measured > 0) =>
               /\ run.mwl_raw = Some(ss.twl_measured)
               /\ run.mwl_source = Some("Instrument capacity input")
               /\ Val(run.mwl_env) = Least3(ss.twl_measured, Val(run.mwl_cap), MemoryUsed(run))
        /\ (ss.twl_measured = 0) =>
               /\ run.mwl_raw = Some(estimate_mwl_wm2(ss.db_c, ss.rh_pct, ss.ws_ms, ss.gt_c,
                                                      Val(ss.wbgt_base_frozen)))
               /\ run.mwl_source = Some("Model")
               /\ Val(run.mwl_env) = Least3(Val(run.mwl_raw), Val(run.mwl_cap), MemoryUsed(run))

\* an instrument reading of 100 below both the modelled capacity and the cap
C11_Witness ==
    /\ ss.twl_measured = Dec(100, 0)
    /\ run.mwl_source = Some("Instrument capacity input")
    /\ run.mwl_env = Some(Dec(100, 0))
    /\ Val(run.mwl_cap) > Dec(100, 0)
    /\ estimate_mwl_wm2(ss.db_c, ss.rh_pct, ss.ws_ms, ss.gt_c, Val(ss.wbgt_base_frozen))
           > Dec(100, 0)

\* C12: operational capacity is at least 60 W/m2 whenever it is computed.
C12_OperationalFloor ==
    Computed(run) => Val(run.mwl_op) >= Dec(60, 0)

\* environmental capacity 0 with a PPE selection: the floor of 60 is what is left
C12_Witness ==
    /\ run.mwl_env = Some(0) /\ ss.pen_clo_c > 0
    /\ run.mwl_op = Some(Dec(60, 0))

(***************************************************************************)
(* Properties of the risk classifier                                       *)
(***************************************************************************)
\* LOW < CAUTION < HIGH STRAIN < WITHDRAWAL
Level(name) ==
    CASE name = "LOW" -> 0
      [] name = "CAUTION" -> 1
      [] name = "HIGH STRAIN" -> 2
      [] name = "WITHDRAWAL" -> 3

Classified(s) == s.final_risk # None /\ s.wbgt_sev # None

\* effective WBGT values on, just below and just above every cut-point
EffProbes ==
    {Dec(t, 0) + d : t \in {27, 29, 30, 32, 33, 35}, d \in {-1, 0, 1}}

\* C13: the final risk level is never below the WBGT band of the evaluation,
\* and for the thresholds in force the WBGT band is non-decreasing in
\* effective WBGT.
C13_OverrideOnlyEscalates ==
    /\ Classified(ss) => Level(Val(ss.final_risk)) >= Val(ss.wbgt_sev)
    /\ \A a \in EffProbes : \A b \in EffProbes :
           (a <= b) => _wbgt_band_from_eff(a, ss.thr_A_c, ss.thr_B_c, ss.thr_C_c)
                         <= _wbgt_band_from_eff(b, ss.thr_A_c, ss.thr_B_c, ss.thr_C_c)

\* the override raised a band of HIGH STRAIN to WITHDRAWAL
C13_Witness ==
    /\ Classified(ss) /\ ss.wbgt_sev = Some(2) /\ ss.final_risk = Some("WITHDRAWAL")

\* the level the HSP rules ask for
HspLevel(hsp) ==
    IF hsp >= Dec(1, 3000) THEN 3
    ELSE IF hsp >= Dec(1, 0) THEN 2
    ELSE IF hsp >= Dec(0, 8000) THEN 1
    ELSE 0

\* the rules of the claim, applied to an HSP value and a WBGT band
RuleRisk(hsp, band) ==
    IF hsp >= Dec(1, 3000) THEN 3
    ELSE IF hsp >= Dec(1, 0) /\ band \in {0, 1} THEN 2
    ELSE IF Dec(0, 8000) <= hsp /\ hsp < Dec(1, 0) /\ band = 0 THEN 1
    ELSE band

\* C14 as claimed: whenever HSP is computed the final risk follows the
\* override rules, i.e. it is max(WBGT band, HSP level).
C14_OverrideRulesAsClaimed ==
    (Classified(ss) /\ ss.hsp # None) =>
        /\ Level(Val(ss.final_risk)) = RuleRisk(Val(ss.hsp), Val(ss.wbgt_sev))
        /\ Level(Val(ss.final_risk)) = Max(Val(ss.wbgt_sev), HspLevel(Val(ss.hsp)))

\* C14 amended: the same while the HSP override checkbox is ticked; while it
\* is not, the final risk is the WBGT band.
C14_OverrideRules ==
    (Classified(ss) /\ ss.hsp # None) =>
        /\ ss.use_phys =>
               /\ Level(Val(ss.final_risk)) = RuleRisk(Val(ss.hsp), Val(ss.wbgt_sev))
               /\ Level(Val(ss.final_risk)) = Max(Val(ss.wbgt_sev), HspLevel(Val(ss.hsp)))
        /\ ~ss.use_phys => Level(Val(ss.final_risk)) = Val(ss.wbgt_sev)

\* the middle rule: HSP in [1.00, 1.30) lifts a band of CAUTION to HIGH STRAIN
C14_Witness ==
    /\ Classified(ss) /\ ss.hsp # None /\ ss.use_phys
    /\ Val(ss.hsp) >= Dec(1, 0) /\ Val(ss.hsp) < Dec(1, 3000)
    /\ ss.wbgt_sev = Some(1) /\ ss.final_risk = Some("HIGH STRAIN")

\* the half-open bands of the claim
HalfOpenBand(eff, A, B, C) ==
    CASE eff < A -> 0
      [] A <= eff /\ eff < B -> 1
      [] B <= eff /\ eff < C -> 2
      [] eff >= C -> 3

\* C15: the WBGT band of an evaluation is LOW below A, CAUTION on [A, B),
\* HIGH STRAIN on [B, C) and WITHDRAWAL from C on; a value on a cut-point is
\* in the higher band.
C15_HalfOpenBands ==
    /\ Classified(ss) =>
           ss.wbgt_sev = Some(HalfOpenBand(Val(ss.wbgt_eff_c), ss.thr_A_c, ss.thr_B_c, ss.thr_C_c))
    /\ _wbgt_band_from_eff(ss.thr_A_c, ss.thr_A_c, ss.thr_B_c, ss.thr_C_c) = 1
    /\ _wbgt_band_from_eff(ss.thr_B_c, ss.thr_A_c, ss.thr_B_c, ss.thr_C_c) = 2
    /\ _wbgt_band_from_eff(ss.thr_C_c, ss.thr_A_c, ss.thr_B_c, ss.thr_C_c) = 3

\* effective WBGT exactly on the withdrawal cut-point
C15_Witness ==
    /\ Classified(ss) /\ ss.wbgt_eff_c = Some(ss.thr_C_c) /\ ss.wbgt_sev = Some(3)

\* the cut-points of an acclimatization status
CutPoints(accl) ==
    IF accl = "Acclimatized" THEN <<Dec(29, 0), Dec(32, 0), Dec(35, 0)>>
    ELSE <<Dec(27, 0), Dec(30, 0), Dec(33, 0)>>

WetBulbBands(accl) ==
    IF accl = "Acclimatized" THEN <<Dec(26, 0), Dec(28, 0), Dec(30, 0)>>
    ELSE <<Dec(24, 0), Dec(26, 0), Dec(28, 0)>>

\* C16: the thresholds are 29/32/35 when acclimatized and 27/30/33 when not,
\* the wet-bulb bands 26/28/30 carry the same shift, A < B < C always, and
\* the band of an evaluation is taken with the thresholds of the
\* acclimatization status selected in that evaluation.
C16_ThresholdsFollowAcclimatization ==
    /\ <<ss.thr_A_c, ss.thr_B_c, ss.thr_C_c>> = CutPoints(ss.accl_status)
    /\ ss.thr_A_c < ss.thr_B_c /\ ss.thr_B_c < ss.thr_C_c
    /\ Evaluated(ss) =>
           <<ss.wb_safe_c, ss.wb_strain_c, ss.wb_danger_c>>
               = <<Some(WetBulbBands(ss.accl_status)[1]), Some(WetBulbBands(ss.accl_status)[2]),
                   Some(WetBulbBands(ss.accl_status)[3])>>
    /\ Classified(ss) =>
           ss.wbgt_sev = Some(_wbgt_band_from_eff(Val(ss.wbgt_eff_c),
                                                  CutPoints(ss.accl_status)[1],
                                                  CutPoints(ss.accl_status)[2],
                                                  CutPoints(ss.accl_status)[3]))

\* the evaluation that switches to not acclimatized already bands 28.0848
\* against A = 27
C16_Witness ==
    /\ run.ev = "set_accl" /\ ss.accl_status = "Not acclimatized"
    /\ ss.thr_A_c = Dec(27, 0) /\ Val(ss.wbgt_eff_c) < Dec(29, 0)
    /\ ss.wbgt_sev = Some(1)

(***************************************************************************)
(* Properties of the audit log                                             *)
(***************************************************************************)
IsPrefix(a, b) == Len(a) <= Len(b) /\ SubSeq(b, 1, Len(a)) = a

\* C17: a record is created only by an explicit save: an evaluation that is
\* not a save leaves the log unchanged, and the log never holds more records
\* than saves were made.
C17_RecordsOnlyOnSave ==
    /\ [][(run'.ev # "save") => (ss'.audit_log = ss.audit_log)]_vars
    /\ [](Len(ss.audit_log) <= ss.save_counter)

\* C18: every save increments the save counter by one and appends exactly one
\* record, that of the evaluation; the evaluations that follow without a save
\* append nothing and leave the counter alone.
C18_SaveOncePerCounter ==
    [][/\ (run'.ev = "save") =>
              /\ ss'.save_counter = ss.save_counter + 1
              /\ ss'.audit_log = Append(ss.audit_log, LogEntry(ss'))
              /\ ss'.last_saved_id = ss'.save_counter
       /\ (run'.ev # "save" /\ Evaluated(ss)) =>
              /\ ss'.save_counter = ss.save_counter
              /\ ss'.audit_log = ss.audit_log]_vars

\* a re-render after the first save: the record of the save is there, and no
\* further one
C18_Witness ==
    /\ run.ev = "rerender" /\ ss.save_counter = 1 /\ ss.last_saved_id = 1
    /\ Len(ss.audit_log) = 2

\* C19: the log is append-only: every step keeps the records it had, in
\* place and unmodified; the log length and the save counter never decrease,
\* and last_saved_id never exceeds the save counter.
C19_AppendOnly ==
    [][/\ IsPrefix(ss.audit_log, ss'.audit_log)
       /\ Len(ss'.audit_log) >= Len(ss.audit_log)
       /\ ss'.save_counter >= ss.save_counter
       /\ ss'.last_saved_id >= ss.last_saved_id
       /\ ss'.last_saved_id <= ss'.save_counter]_vars

\* a confirmed reset with two records in the log
C19_Witness ==
    /\ run.ev = "reset_yes" /\ ss.save_counter = 1 /\ Len(ss.audit_log) = 2

(***************************************************************************)
(* Properties of the confirmed reset                                       *)
(***************************************************************************)
\* C20: the evaluation of a confirmed reset starts from cleared derived
\* state: the baseline is frozen anew from the current reading, no penalties
\* are applied, the total is 0, effective WBGT is the baseline, and the
\* environmental capacity is min(raw, cap), free of the ratchet memory held
\* before the reset.
C20_ResetStartsAfresh ==
    [][(run'.ev = "reset_yes") =>
           /\ ss'.wbgt_base_frozen
                  = Some(WbgtRaw(ss'.db_c, ss'.rh_pct, ss'.ws_ms, ss'.gt_c))
           /\ ~ss'.penalties_applied
           /\ ss'.total_penalty_c = 0
           /\ ss'.wbgt_eff_c = ss'.wbgt_base_frozen
           /\ Computed(run')
           /\ Val(run'.mwl_env) = Min(Val(run'.mwl_raw), Val(run'.mwl_cap))
           /\ ss'.mwl_env_prev = run'.mwl_env]_vars

\* a reset with penalties applied and a ratchet memory below the capacity
\* that the reset evaluation arrives at
C20_Witness ==
    /\ run.ev = "reset_yes" /\ run.pre_applied /\ run.pre_total > 0
    /\ run.pre_mwl_prev # None /\ Computed(run)
    /\ Val(run.pre_mwl_prev) < Val(run.mwl_env)
    /\ ~ss.penalties_applied /\ ss.total_penalty_c = 0

\* C21: the evaluation of a confirmed reset leaves the inputs cleared: the
\* reading is at its defaults, the four category deltas are 0 and the
\* instrument capacity is 0.
C21_ResetClearsInputs ==
    [][(run'.ev = "reset_yes") =>
           /\ <<ss'.db_c, ss'.rh_pct, ss'.ws_ms, ss'.gt_c, ss'.p_kpa>>
                  = <<DB_DEFAULT, RH_DEFAULT, WS_DEFAULT, GT_DEFAULT, P_DEFAULT>>
           /\ <<ss'.pen_clo_c, ss'.pen_veh_c, ss'.pen_rad_c, ss'.pen_adhoc_c>> = <<0, 0, 0, 0>>
           /\ ss'.twl_measured = 0]_vars

(***************************************************************************)
(* Properties of the weather fetch                                         *)
(***************************************************************************)
\* C22: a failed weather fetch leaves the five fields of the reading, the
\* frozen baseline, the penalties-applied flag, the total penalty and the
\* effective WBGT as they were.
C22_FailedFetchChangesNothing ==
    [][RetrieveFails =>
           /\ <<ss'.db_c, ss'.rh_pct, ss'.ws_ms, ss'.gt_c, ss'.p_kpa>>
                  = <<ss.db_c, ss.rh_pct, ss.ws_ms, ss.gt_c, ss.p_kpa>>
           /\ ss'.wbgt_base_frozen = ss.wbgt_base_frozen
           /\ ss'.penalties_applied = ss.penalties_applied
           /\ ss'.total_penalty_c = ss.total_penalty_c
           /\ ss'.wbgt_eff_c = ss.wbgt_eff_c]_vars

(***************************************************************************)
(* Properties at the edge of the input ranges                              *)
(***************************************************************************)
\* ss at the end of the script run that event e triggers in session s
ScriptUpTo6(s, e) ==
    Block6(Block5B(ExposureInputs(Block5A(Block5(Block4(
        Block3(ResetButtons(UnitsRadio(s, e), e), e), e)), e), e), e), e)

ScriptEnd(s6, e) == IF Block7Stops(s6) THEN s6 ELSE Block8(Block7(s6, e), e)

ScriptResult(s, e) == ScriptEnd(ScriptUpTo6(s, e), e)

\* what an evaluation reports: baseline, capacity cap, environmental capacity
\* (as stored for the ratchet), HSP and final risk
Reported(s) ==
    <<s.wbgt_base_frozen, MwlCap(s.gt_c, s.ws_ms, Val(s.wbgt_base_frozen)),
      s.mwl_env_prev, s.hsp, s.final_risk>>

\* C23: the evaluation of a negative wind speed reports the baseline, cap,
\* environmental capacity, HSP and final risk that the same session reports
\* for the clamped entry, wind 0.
C23_NegativeWindAsClamped ==
    [][(run'.ev = "set_ws" /\ ss'.ws_ms < 0) =>
           Reported(ss') = Reported(ScriptResult(ss, Ev("set_ws", 0)))]_vars

\* C24: HSP is non-negative whenever it is computed.
C24_HspNonNegative ==
    ss.hsp # None => Val(ss.hsp) >= 0

(***************************************************************************)
(* Scenario 1                                                              *)
(***************************************************************************)
About(x, target, tol) == Abs(x - target) <= tol

\* the default reading, acclimatized, PPE Moderate and nothing else, applied
Scenario1(s, r) ==
    /\ r.ev = "apply" /\ s.penalties_applied
    /\ <<s.db_c, s.rh_pct, s.ws_ms, s.gt_c>> = <<Dec(32, 0), Dec(60, 0), Dec(1, 0), Dec(35, 0)>>
    /\ s.accl_status = "Acclimatized" /\ s.twl_measured = 0
    /\ <<s.pen_clo_c, s.pen_veh_c, s.pen_rad_c, s.pen_adhoc_c>> = <<Dec(2, 0), 0, 0, 0>>

\* C25: scenario 1 yields baseline WBGT about 28.0, effective WBGT about
\* 30.0 (the baseline plus 2.0), environmental capacity 280 bound by the cap,
\* operational capacity 244, HSP about 0.82, band and final risk CAUTION.
C25_ScenarioOne ==
    Scenario1(ss, run) =>
        /\ About(Val(ss.wbgt_base_frozen), Dec(28, 0), 1000)
        /\ About(Val(ss.wbgt_eff_c), Dec(30, 0), 1000)
        /\ ss.wbgt_eff_c = Some(Val(ss.wbgt_base_frozen) + Dec(2, 0))
        /\ run.mwl_env = Some(Dec(280, 0)) /\ run.mwl_cap = Some(Dec(280, 0))
        /\ Val(run.mwl_raw) > Dec(280, 0)
        /\ run.mwl_op = Some(Dec(244, 0))
        /\ About(Val(ss.hsp), Dec(0, 8200), 50)
        /\ ss.wbgt_sev = Some(1) /\ ss.final_risk = Some("CAUTION")

C25_Witness ==
    /\ Scenario1(ss, run) /\ run.pre_total = 0 /\ ~run.pre_applied
    /\ run.mwl_op = Some(Dec(244, 0)) /\ ss.final_risk = Some("CAUTION")

\* C26: switching the display units changes no canonical value: the reading,
\* the four category deltas, the frozen baseline, the penalties-applied
\* flag, the total penalty and the effective WBGT stay as they were.
C26_UnitsAreDisplayOnly ==
    [][(run'.ev = "units") =>
           /\ <<ss'.db_c, ss'.rh_pct, ss'.ws_ms, ss'.gt_c, ss'.p_kpa>>
                  = <<ss.db_c, ss.rh_pct, ss.ws_ms, ss.gt_c, ss.p_kpa>>
           /\ <<ss'.pen_clo_c, ss'.pen_veh_c, ss'.pen_rad_c, ss'.pen_adhoc_c>>
                  = <<ss.pen_clo_c, ss.pen_veh_c, ss.pen_rad_c, ss.pen_adhoc_c>>
           /\ ss'.wbgt_base_frozen = ss.wbgt_base_frozen
           /\ ss'.penalties_applied = ss.penalties_applied
           /\ ss'.total_penalty_c = ss.total_penalty_c
           /\ ss'.wbgt_eff_c = ss.wbgt_eff_c]_vars

(***************************************************************************)
(* Acclimatization and the final risk                                      *)
(***************************************************************************)
\* the final risk of the state's effective WBGT, HSP and override option
\* under the cut-points of an acclimatization status
FinalFor(s, accl) ==
    Override(s.use_phys, s.hsp,
             RiskName(_wbgt_band_from_eff(Val(s.wbgt_eff_c), CutPoints(accl)[1],
                                          CutPoints(accl)[2], CutPoints(accl)[3])))

\* C28: for the same effective WBGT, reading and penalties the final risk of
\* a non-acclimatized worker is never below that of an acclimatized worker;
\* the final risk of the state is the one of its acclimatization status.
C28_NotAcclimatizedNeverLower ==
    Classified(ss) =>
        /\ Level(FinalFor(ss, "Not acclimatized")) >= Level(FinalFor(ss, "Acclimatized"))
        /\ ss.final_risk = Some(FinalFor(ss, ss.accl_status))

\* switching to not acclimatized raised the final risk of the same
\* effective WBGT
C28_Witness ==
    /\ Classified(ss) /\ run.ev = "set_accl" /\ ss.accl_status = "Not acclimatized"
    /\ Level(Val(ss.final_risk)) > Level(FinalFor(ss, "Acclimatized"))

(***************************************************************************)
(* Past the landing gate                                                   *)
(***************************************************************************)
\* C30: after every evaluation past the landing gate the frozen baseline and
\* the effective WBGT are present; no apply takes the branch for a missing
\* baseline and no evaluation stops before the classification and the audit
\* block.
C30_BaselineAlwaysPresent ==
    ss.landing_open =>
        /\ ss.wbgt_base_frozen # None /\ ss.wbgt_eff_c # None
        /\ ~run.apply_error /\ ~run.stopped
        /\ Computed(run) /\ ss.final_risk # None

\* an apply on a baseline that was refrozen from a changed reading
C30_Witness ==
    /\ ss.landing_open /\ run.ev = "apply" /\ ss.penalties_applied
    /\ ss.wbgt_base_frozen # None /\ ~run.apply_error /\ ~run.stopped
    /\ Val(ss.wbgt_base_frozen) # Dec(28, 848)

(***************************************************************************)
(* The content of an audit record                                          *)
(***************************************************************************)
\* the step appended a record
Appended == Len(ss'.audit_log) = Len(ss.audit_log) + 1

Last(log) == log[Len(log)]

\* the record carries the values of the session at the end of the run,
\* formatted: reading, baseline, total, effective WBGT, HSP, final risk
SnapshotOf(rec, s, r) ==
    /\ <<rec.db, rec.rh, rec.gt, rec.ws>>
           = <<Fmt1(s.db_c), RoundTo(s.rh_pct, SCALE), Fmt1(s.gt_c), Round2(s.ws_ms)>>
    /\ rec.baseline = Some(Fmt1(Val(s.wbgt_base_frozen)))
    /\ rec.total = Fmt1(s.total_penalty_c)
    /\ rec.eff = Fmt1(Val(s.wbgt_eff_c))
    /\ Computed(r)
    /\ rec.hsp = Some(Round2(Hsp(Val(s.wbgt_eff_c), Val(r.mwl_op))))
    /\ rec.risk = s.final_risk
    /\ s.wbgt_base_frozen = Some(WbgtRaw(s.db_c, s.rh_pct, s.ws_ms, s.gt_c))
    /\ Val(s.wbgt_eff_c) = Val(s.wbgt_base_frozen) + s.total_penalty_c

\* C29 as claimed: a record is the snapshot of the evaluation that appended
\* it, and the effective WBGT in the record is the sum of the baseline and
\* the total penalty in the record.
C29_SnapshotAsClaimed ==
    [][Appended =>
           /\ SnapshotOf(Last(ss'.audit_log), ss', run')
           /\ Last(ss'.audit_log).eff
                  = Val(Last(ss'.audit_log).baseline) + Last(ss'.audit_log).total]_vars

\* C29 amended: a record is the snapshot of the evaluation that appended it;
\* the values of that evaluation satisfy effective = baseline + total, and
\* the three one-decimal figures of the record satisfy it within 0.1.
C29_Snapshot ==
    [][Appended =>
           /\ SnapshotOf(Last(ss'.audit_log), ss', run')
           /\ Abs(Last(ss'.audit_log).eff
                  - (Val(Last(ss'.audit_log).baseline) + Last(ss'.audit_log).total))
                  <= Dec(0, 1000)]_vars

\* a saved record of applied penalties whose three figures do not add up
C29_Witness ==
    /\ run.ev = "save" /\ ss.penalties_applied /\ ss.total_penalty_c > 0
    /\ Len(ss.audit_log) >= 2
    /\ Last(ss.audit_log).eff
           # Val(Last(ss.audit_log).baseline) + Last(ss.audit_log).total

(***************************************************************************)
(* Operational against environmental capacity                              *)
(***************************************************************************)
\* C31 as claimed: operational capacity never exceeds the environmental
\* capacity of the same evaluation.
C31_OperationalAtMostEnvironmentalAsClaimed ==
    Computed(run) => Val(run.mwl_op) <= Val(run.mwl_env)

\* C31 amended: operational capacity never exceeds the larger of the
\* environmental capacity and the floor of 60: it is at most the
\* environmental capacity when that is 60 or more, and it is 60 when the
\* environmental capacity is below 60.
C31_OperationalAtMostEnvironmental ==
    Computed(run) =>
        /\ Val(run.mwl_op) <= Max(Val(run.mwl_env), MWL_MIN)
        /\ (Val(run.mwl_env) >= MWL_MIN) => (Val(run.mwl_op) <= Val(run.mwl_env))
        /\ (Val(run.mwl_env) < MWL_MIN) => (Val(run.mwl_op) = MWL_MIN)

\* a PPE selection took operational capacity below the environmental one
C31_Witness ==
    /\ Computed(run) /\ ss.pen_clo_c > 0
    /\ Val(run.mwl_env) >= MWL_MIN /\ Val(run.mwl_op) < Val(run.mwl_env)

(***************************************************************************)
(* The model source and earlier instrument readings                        *)
(***************************************************************************)
\* C32: with the model as source (instrument reading 0), environmental
\* capacity is min(modelled raw capacity, cap) of the current reading, whatever
\* instrument readings earlier evaluations under the same signature had.
C32_ModelCapacityIgnoresHistory ==
    (Computed(run) /\ ss.twl_measured = 0) =>
        /\ run.mwl_source = Some("Model")
        /\ Val(run.mwl_env) = Min(Val(run.mwl_raw), Val(run.mwl_cap))

(***************************************************************************)
(* The penalties behind the capacity loss                                  *)
(***************************************************************************)
\* C33: after an apply, the capacity loss comes from the category deltas
\* clamped to their maxima (PPE 3, vehicle 3, radiant 5, ad-hoc 4), the
\* values that make up the total penalty.
C33_LossFromClampedPenalties ==
    (Computed(run) /\ run.ev = "apply" /\ ss.penalties_applied) =>
        run.mwl_op = Some(apply_capacity_penalties(
                              Val(run.mwl_env),
                              ClampTo(ss.pen_clo_c, Dec(3, 0)), ClampTo(ss.pen_veh_c, Dec(3, 0)),
                              ClampTo(ss.pen_rad_c, Dec(5, 0)), ClampTo(ss.pen_adhoc_c, Dec(4, 0))))

(***************************************************************************)
(* Reset needs its confirmation                                            *)
(***************************************************************************)
\* C34: pressing the reset button, and cancelling the confirmation, leave the
\* reading, the frozen baseline, the penalties-applied flag, the total
\* penalty, effective WBGT, the ratchet memory and the audit log unchanged.
C34_ResetNeedsConfirmation ==
    [][(run'.ev \in {"reset_press", "reset_cancel"}) =>
           /\ <<ss'.db_c, ss'.rh_pct, ss'.ws_ms, ss'.gt_c, ss'.p_kpa>>
                  = <<ss.db_c, ss.rh_pct, ss.ws_ms, ss.gt_c, ss.p_kpa>>
           /\ ss'.wbgt_base_frozen = ss.wbgt_base_frozen
           /\ ss'.penalties_applied = ss.penalties_applied
           /\ ss'.total_penalty_c = ss.total_penalty_c
           /\ ss'.wbgt_eff_c = ss.wbgt_eff_c
           /\ <<ss'.mwl_env_sig, ss'.mwl_env_prev>> = <<ss.mwl_env_sig, ss.mwl_env_prev>>
           /\ ss'.audit_log = ss.audit_log]_vars

\* a cancelled reset of a session with a changed reading, applied penalties
\* and a ratchet memory
C34_Witness ==
    /\ run.ev = "reset_cancel" /\ ~ss.confirm_reset
    /\ ss.db_c # DB_DEFAULT /\ ss.penalties_applied /\ ss.total_penalty_c > 0
    /\ ss.mwl_env_prev # None /\ Len(ss.audit_log) = 1

(***************************************************************************)
(* A fetch without a location                                              *)
(***************************************************************************)
\* C35: a weather fetch with no location selected changes nothing: the
\* reading, the dirty flag, the frozen baseline, the penalties-applied flag,
\* the total penalty and effective WBGT stay as they were.
C35_FetchNeedsLocation ==
    [][RetrieveNoLocation =>
           /\ <<ss'.db_c, ss'.rh_pct, ss'.ws_ms, ss'.gt_c, ss'.p_kpa>>
                  = <<ss.db_c, ss.rh_pct, ss.ws_ms, ss.gt_c, ss.p_kpa>>
           /\ ss'.env_dirty = ss.env_dirty
           /\ ss'.wbgt_base_frozen = ss.wbgt_base_frozen
           /\ ss'.penalties_applied = ss.penalties_applied
           /\ ss'.total_penalty_c = ss.total_penalty_c
           /\ ss'.wbgt_eff_c = ss.wbgt_eff_c
           /\ ~run'.reset5]_vars

\* a fetch without a location on a reading that a fetch would overwrite,
\* with penalties applied
C35_Witness ==
    /\ run.ev = "fetch" /\ ~ss.has_loc
    /\ ss.gt_c = Dec(55, 0) /\ ss.p_kpa = Dec(100, 0)
    /\ ss.penalties_applied /\ ss.total_penalty_c > 0

(***************************************************************************)
(* The sidebar reference bands                                             *)
(***************************************************************************)
\* C36: in every evaluation the band edges shown in the sidebar are the
\* thresholds A, B, C that the classification of that evaluation uses.
C36_SidebarShowsThresholdsInUse ==
    (run.sidebar # None /\ Classified(ss)) =>
        /\ run.sidebar = Some(<<ss.thr_A_c, ss.thr_B_c, ss.thr_C_c>>)
        /\ ss.wbgt_sev = Some(_wbgt_band_from_eff(Val(ss.wbgt_eff_c), Val(run.sidebar)[1],
                                                  Val(run.sidebar)[2], Val(run.sidebar)[3]))

====
